---- MODULE Spec2Model ----
(***************************************************************************)
(* SureOdds AI (src/index.tsx): the prediction fetch workflow of the       *)
(* single-page application.  fetchPredictions builds a prompt, calls the   *)
(* external AI service, extracts a JSON array from the answer text and     *)
(* returns at most five predictions; App.loadData drives it from the       *)
(* initial mount, the REFRESH SLIP button and the RETRY NOW button and     *)
(* folds each completion into AppState.                                    *)
(*                                                                         *)
(* Texts and error messages are sequences of tokens (strings).  A JSON     *)
(* object literal is one token, "p1", "p2", ...; "x" is a word of prose.   *)
(* A parsed JSON value is represented by the token sequence that spells    *)
(* it, so an object is <<"p1">> and a nested array <<"[","p1","]">>.       *)
(***************************************************************************)
EXTENDS Integers, Sequences, FiniteSets, TLC

\* ------------------------------------------------------------------ bounds

\* The longest array literal an answer carries (one more than the cut at 5).
MaxElems == 6
\* How many times loadData is invoked in one run.
MaxFetches == 3
\* How many hours the clock advances in one run.
MaxNow == 1
\* The length up to which every text over the tokens is an answer.
MaxTextLen == 4

\* ------------------------------------------------------- program constants

\* predictions.slice(0, 5)
SliceEnd == 5
\* README: "saving results for 4 hours"
FreshnessWindow == 4

\* ---------------------------------------------------------------- messages

ConfigMsg == <<"API_KEY is missing in Vercel settings.">>
InvalidDataMsg == <<"The AI returned invalid data. Please try again.">>
NoMatchesMsg == <<"The AI could not find enough quality matches for today. Try refreshing.">>
RateLimitMsg == <<"Daily AI limits reached. Please try again in 1 hour.">>
UnexpectedMsg == <<"An unexpected error occurred.">>
NoSuitableMsg == <<"No suitable matches found right now. Try refreshing in a moment.">>

\* AppState.error: string | null
Null == [null |-> TRUE, msg |-> <<>>]
Str(m) == [null |-> FALSE, msg |-> m]
\* `state.error ? ... : ...` in the render: null and "" are falsy
Truthy(e) == ~e.null /\ e.msg # <<>>

\* ------------------------------------------------------------ text helpers

\* String.prototype.includes
Includes(s, pat) ==
  \E i \in 1..(Len(s) - Len(pat) + 1) : SubSeq(s, i, i + Len(pat) - 1) = pat

Indices(t, c) == {i \in 1..Len(t) : t[i] = c}
SetMin(S) == CHOOSE m \in S : \A k \in S : m <= k
SetMax(S) == CHOOSE m \in S : \A k \in S : m >= k

\* text.match(/\[[\s\S]*\]/): from the first "[" to the last "]" after it
HasMatch(t) ==
  /\ Indices(t, "[") # {}
  /\ Indices(t, "]") # {}
  /\ SetMin(Indices(t, "[")) < SetMax(Indices(t, "]"))
JsonMatch(t) == SubSeq(t, SetMin(Indices(t, "[")), SetMax(Indices(t, "]")))

\* The i-th JSON object literal.
Obj(i) == "p" \o ToString(i)
IsObj(c) == c \notin {"[", "]", ",", "x"}

\* JSON grammar: value ::= object | "[" "]" | "[" value ("," value)* "]".
\* ValueEnd(t, i) is the index after the value that starts at i, 0 if none
\* starts there; RestEnd(t, i) is the index after the "]" that closes an
\* array whose next element starts at i.
RECURSIVE ValueEnd(_, _), RestEnd(_, _)
ValueEnd(t, i) ==
  IF i < 1 \/ i > Len(t) THEN 0
  ELSE IF IsObj(t[i]) THEN i + 1
  ELSE IF t[i] # "[" THEN 0
  ELSE IF i + 1 <= Len(t) /\ t[i + 1] = "]" THEN i + 2
  ELSE RestEnd(t, i + 1)
RestEnd(t, i) ==
  LET e == ValueEnd(t, i) IN
  IF e = 0 \/ e > Len(t) THEN 0
  ELSE IF t[e] = "]" THEN e + 1
  ELSE IF t[e] = "," THEN RestEnd(t, e + 1)
  ELSE 0

\* The elements of the array literal whose next element starts at i.
RECURSIVE Elements(_, _)
Elements(t, i) ==
  IF t[i] = "]" THEN <<>>
  ELSE LET e == ValueEnd(t, i) IN
       <<SubSeq(t, i, e - 1)>> \o
         (IF t[e] = "," THEN Elements(t, e + 1) ELSE <<>>)

\* JSON.parse of a span: it throws unless the span is exactly one value.
ParseOk(s) == ValueEnd(s, 1) = Len(s) + 1
JSONParse(s) == Elements(s, 2)

\* Slice without the cut.
SliceAll(a) == a

\* Array.prototype.slice(0, 5)
Slice(a) == SubSeq(a, 1, IF Len(a) < SliceEnd THEN Len(a) ELSE SliceEnd)

\* JSON.stringify of an array of objects, without white space.
RECURSIVE Joined(_)
Joined(es) ==
  IF Len(es) = 0 THEN <<>>
  ELSE IF Len(es) = 1 THEN <<es[1]>>
  ELSE <<es[1], ",">> \o Joined(Tail(es))
Literal(es) == <<"[">> \o Joined(es) \o <<"]">>

\* --------------------------------------------------------- fetchPredictions

\* p.match of a parsed element; a value that is no object has none, and
\* join() writes undefined as the empty string.
MatchOf(p) == IF Len(p) = 1 /\ IsObj(p[1]) THEN p[1] \o ".match" ELSE ""

RECURSIVE MapMatch(_)
MapMatch(ps) ==
  IF Len(ps) = 0 THEN <<>> ELSE <<MatchOf(Head(ps))>> \o MapMatch(Tail(ps))

\* excludeMatches.join(', ')
RECURSIVE JoinNames(_)
JoinNames(ns) ==
  IF Len(ns) = 0 THEN <<>>
  ELSE IF Len(ns) = 1 THEN <<ns[1]>>
  ELSE <<ns[1], ", ">> \o JoinNames(Tail(ns))

ExcludeSentence(ns) ==
  <<"Try to find a different set of matches than these: ">> \o JoinNames(ns) \o <<".">>

\* The prompt template; the date line and the fixed wording carry no decision
\* and stand as single tokens.
Prompt(excludeMatches) ==
  <<"Analyze REAL football matches scheduled for today">> \o
  (IF Len(excludeMatches) > 0 THEN ExcludeSentence(excludeMatches) ELSE <<>>) \o
  <<"Return ONLY a JSON array of 5 objects">>

Resolve(ps, ss) == [ok |-> TRUE, predictions |-> ps, sources |-> ss, message |-> <<>>]
Reject(m) == [ok |-> FALSE, predictions |-> <<>>, sources |-> <<>>, message |-> m]

\* A thrown value: an Error carries a message, anything else has none.
Thrown(m) == [hasMessage |-> TRUE, message |-> m]

\* chunks.forEach: a chunk without web.uri ("" here) is skipped; the title
\* falls back to the uri.
RECURSIVE SourcesOf(_)
SourcesOf(chunks) ==
  IF Len(chunks) = 0 THEN <<>>
  ELSE LET c == Head(chunks) IN
       (IF c.uri # ""
          THEN <<[title |-> IF c.title # "" THEN c.title ELSE c.uri, uri |-> c.uri]>>
          ELSE <<>>) \o SourcesOf(Tail(chunks))

\* Array.from(new Set(uris)).map(uri => sources.find(...)): the first source
\* of every uri, in order of first occurrence.
RECURSIVE UniqueFrom(_, _)
UniqueFrom(ss, i) ==
  IF i > Len(ss) THEN <<>>
  ELSE (IF \E j \in 1..(i - 1) : ss[j].uri = ss[i].uri THEN <<>> ELSE <<ss[i]>>)
         \o UniqueFrom(ss, i + 1)
UniqueSources(ss) == UniqueFrom(ss, 1)

\* NoMatch that answers an empty list instead of throwing.
NoMatchEmpty(resp) == [thrown |-> FALSE, value |-> Resolve(<<>>, <<>>)]

\* The else branch of `if (jsonMatch)`.
NoMatch(resp) == [thrown |-> TRUE, err |-> Thrown(NoMatchesMsg)]

\* The body of the try block once generateContent has answered.
TryBody(resp) ==
  LET text == IF resp.hasText THEN resp.text ELSE <<>> IN
  IF HasMatch(text)
    THEN IF ParseOk(JsonMatch(text))
           THEN [thrown |-> FALSE,
                 value |-> Resolve(Slice(JSONParse(JsonMatch(text))),
                                   UniqueSources(SourcesOf(resp.chunks)))]
           ELSE [thrown |-> TRUE, err |-> Thrown(InvalidDataMsg)]
    ELSE NoMatch(resp)

\* CatchMessage without the rate-limit rewrite.
CatchMessagePlain(err) ==
  IF err.hasMessage /\ err.message # <<>> THEN err.message ELSE UnexpectedMsg

\* The catch block: the message that is thrown on.
CatchMessage(err) ==
  IF err.hasMessage /\ Includes(err.message, <<"4", "2", "9">>) THEN RateLimitMsg
  ELSE IF err.hasMessage /\ err.message # <<>> THEN err.message
  ELSE UnexpectedMsg

\* fetchPredictions from the point where generateContent settles with outcome o:
\* either it threw (o.kind = "error") or it answered (o.kind = "response").
FetchPredictions(o) ==
  LET r == IF o.kind = "error" THEN [thrown |-> TRUE, err |-> o.err] ELSE TryBody(o.resp)
  IN IF r.thrown THEN Reject(CatchMessage(r.err)) ELSE r.value

\* ------------------------------------------------- what the service answers

\* <<Obj(1), ..., Obj(n)>>
Objs(n) == [i \in 1..n |-> Obj(i)]

\* Objects as parsed values.
Values(es) == [i \in 1..Len(es) |-> <<es[i]>>]

\* Prose around the array literal: none, plain words, and words that carry a
\* bracketed citation.
Prose == {<<>>, <<"x">>, <<"x", "[", "x", "]", "x">>}

\* Answers that hold one valid array literal of 0..MaxElems objects.
ArrayTexts ==
  {pre \o Literal(Objs(n)) \o post :
     pre \in Prose, post \in {<<>>, <<"x">>}, n \in 0..MaxElems}
  \cup {Literal(Objs(2)) \o <<"x", "[", "x", "]">>,
        Literal(<<Obj(2), Obj(1)>>),
        <<"[">> \o Literal(Objs(1)) \o <<"]">>}

\* Answers without a well-formed array.
BrokenTexts ==
  {<<>>, <<"x">>, <<"]", "x", "[">>, <<"[", Obj(1)>>, <<Obj(1), "]">>,
   <<"[", Obj(1), ",", "]">>, <<"[", "x", "]">>}

Texts == ArrayTexts \cup BrokenTexts

\* Every text of at most MaxTextLen tokens.
Tokens == {"[", "]", ",", "x", Obj(1)}
ShortTexts == UNION {[1..k -> Tokens] : k \in 0..MaxTextLen}

\* groundingChunks: a chunk is web.uri and web.title, "" when absent.
ChunkLists ==
  {<<>>,
   <<[uri |-> "u1", title |-> "t1"], [uri |-> "", title |-> "t0"],
     [uri |-> "u2", title |-> ""], [uri |-> "u1", title |-> "t3"]>>}

Responses ==
  {[hasText |-> TRUE, text |-> t, chunks |-> <<>>] : t \in Texts}
  \cup {[hasText |-> TRUE, text |-> Literal(Objs(2)), chunks |-> c] : c \in ChunkLists}
  \cup {[hasText |-> FALSE, text |-> <<>>, chunks |-> <<>>]}

\* What generateContent throws: an HTTP status in the message, an empty
\* message, or a value without a message.
Errors ==
  {Thrown(<<"4", "2", "9">>), Thrown(<<"e", "4", "2", "9", "e">>),
   Thrown(<<"4", "2", "e", "9">>), Thrown(<<"5", "0", "3">>), Thrown(<<>>),
   [hasMessage |-> FALSE, message |-> <<>>]}

Outcomes ==
  {[kind |-> "response", resp |-> r] : r \in Responses}
  \cup {[kind |-> "error", err |-> e] : e \in Errors}

\* The answers of the first call range over every short text as well.
ShortOutcomes ==
  {[kind |-> "response", resp |-> [hasText |-> TRUE, text |-> t, chunks |-> <<>>]] :
     t \in ShortTexts}

\* Every outcome with fetchPredictions' result for it.
Settlements(os) == {[outcome |-> o, result |-> FetchPredictions(o)] : o \in os}
Curated == Settlements(Outcomes)
FirstCall == Settlements(Outcomes \cup ShortOutcomes)
SettlementsFor(f) == IF f.id = 1 THEN FirstCall ELSE Curated

\* ---------------------------------------------------------------------- App

VARIABLES
  apiKey,        \* process.env.API_KEY is set
  mounted,       \* the mount effect has run
  state,         \* AppState
  isRefreshing,  \* useState(false)
  inflight,      \* loadData invocations awaiting generateContent
  nextId,        \* the number of the next loadData invocation
  calls,         \* how many times generateContent was called
  now,           \* the clock, in hours
  cache,         \* the browser's local storage slot of the saved results
  last           \* the step taken last, with what it was given and gave

vars == <<apiKey, mounted, state, isRefreshing, inflight, nextId, calls, now, cache, last>>

NoEntry == [present |-> FALSE, predictions |-> <<>>, sources |-> <<>>, timestamp |-> 0]
Entry(ps, ss, ts) == [present |-> TRUE, predictions |-> ps, sources |-> ss, timestamp |-> ts]
\* A saved result is fresh for FreshnessWindow hours.
CacheFresh == cache.present /\ now - cache.timestamp <= FreshnessWindow

\* useState<AppState>({...}), useState(false)
InitialState ==
  [predictions |-> <<>>, sources |-> <<>>, loading |-> TRUE, error |-> Null,
   lastUpdated |-> -1]

Init ==
  /\ apiKey \in BOOLEAN
  /\ mounted = FALSE
  /\ state = InitialState
  /\ isRefreshing = FALSE
  /\ inflight = {}
  /\ nextId = 1
  /\ calls = 0
  /\ now = 0
  /\ cache \in {NoEntry} \cup
               {Entry(Values(Objs(2)), <<[title |-> "t1", uri |-> "u1"]>>, 0 - age) :
                  age \in {1, FreshnessWindow}}
  /\ last = [op |-> "init"]

\* KeyMissing without the check.
KeyMissingNever == FALSE

\* `if (!apiKey)`
KeyMissing == ~apiKey

\* ExcludeFor that never excludes.
ExcludeNone(isRefresh) == <<>>

\* The argument loadData passes to fetchPredictions.
ExcludeFor(isRefresh) == IF isRefresh THEN MapMatch(state.predictions) ELSE <<>>

\* SuccessState behind a request-id fence: a result is dropped when a later
\* invocation has already completed.
SuccessStateFenced(f, r) ==
  IF \E j \in (f.id + 1)..(nextId - 1) : j \notin {g.id : g \in inflight}
    THEN [state EXCEPT !.loading = FALSE]
    ELSE [predictions |-> r.predictions, sources |-> r.sources, loading |-> FALSE,
          error |-> IF Len(r.predictions) = 0 THEN Str(NoSuitableMsg) ELSE Null,
          lastUpdated |-> now]

\* setState({predictions, sources, loading: false, error: ..., lastUpdated})
SuccessState(f, r) ==
  [predictions |-> r.predictions, sources |-> r.sources, loading |-> FALSE,
   error |-> IF Len(r.predictions) = 0 THEN Str(NoSuitableMsg) ELSE Null,
   lastUpdated |-> now]

\* setState(prev => ({...prev, loading: false, error: err.message}))
FailureState(prev, r) == [prev EXCEPT !.loading = FALSE, !.error = Str(r.message)]

\* The render: which controls and panels are on screen.
RefreshEnabled == ~(state.loading \/ isRefreshing)
SpinnerShown == state.loading /\ ~isRefreshing
ErrorShown == ~SpinnerShown /\ Truthy(state.error)
RetryEnabled == ErrorShown
CardsShown == ~SpinnerShown /\ ~ErrorShown /\ Len(state.predictions) > 0
CopyShown == ~state.loading /\ Len(state.predictions) > 0

\* loadData(isRefresh) up to the await: the flag it sets, then fetchPredictions
\* up to generateContent.  Without a key fetchPredictions rejects before any
\* event can be handled, so the catch and finally run in the same step.
LoadData(isRefresh, via) ==
  /\ nextId <= MaxFetches
  /\ nextId' = nextId + 1
  /\ mounted' = TRUE
  /\ UNCHANGED <<apiKey, now, cache>>
  /\ LET started == IF isRefresh THEN state
                    ELSE [state EXCEPT !.loading = TRUE, !.error = Null]
         exclude == ExcludeFor(isRefresh)
     IN IF KeyMissing
          THEN /\ state' = FailureState(started, Reject(ConfigMsg))
               /\ isRefreshing' = FALSE
               /\ UNCHANGED <<inflight, calls>>
               /\ last' = [op |-> "trigger", via |-> via, id |-> nextId,
                           isRefresh |-> isRefresh, called |-> FALSE,
                           prompt |-> <<>>, result |-> Reject(ConfigMsg)]
          ELSE /\ state' = started
               /\ isRefreshing' = (isRefresh \/ isRefreshing)
               /\ inflight' = inflight \cup
                    {[id |-> nextId, isRefresh |-> isRefresh, prompt |-> Prompt(exclude)]}
               /\ calls' = calls + 1
               /\ last' = [op |-> "trigger", via |-> via, id |-> nextId,
                           isRefresh |-> isRefresh, called |-> TRUE,
                           prompt |-> Prompt(exclude), result |-> Reject(<<>>)]

\* useEffect(() => { loadData(); }, [])
Mount ==
  /\ ~mounted
  /\ LoadData(FALSE, "mount")

\* REFRESH SLIP: onClick={() => loadData(true)}, disabled={state.loading || isRefreshing}
ClickRefresh ==
  /\ mounted
  /\ RefreshEnabled
  /\ LoadData(TRUE, "refresh")

\* RETRY NOW: onClick={() => loadData()}, rendered with the error panel
ClickRetry ==
  /\ mounted
  /\ RetryEnabled
  /\ LoadData(FALSE, "retry")

\* generateContent settles for invocation f with outcome o, for which
\* fetchPredictions gives r: loadData's try, catch and finally.
Complete(f, o, r) ==
  /\ f \in inflight
  /\ inflight' = inflight \ {f}
  /\ state' = IF r.ok THEN SuccessState(f, r) ELSE FailureState(state, r)
  /\ last' = [op |-> "complete", id |-> f.id, isRefresh |-> f.isRefresh,
              outcome |-> o, result |-> r]
  /\ isRefreshing' = FALSE
  /\ UNCHANGED <<apiKey, mounted, nextId, calls, now, cache>>

\* An hour passes.
Tick ==
  /\ now < MaxNow
  /\ now' = now + 1
  /\ last' = [op |-> "tick"]
  /\ UNCHANGED <<apiKey, mounted, state, isRefreshing, inflight, nextId, calls, cache>>

\* Any pending call settles, with any outcome.
Settle ==
  \E f \in inflight : \E s \in SettlementsFor(f) : Complete(f, s.outcome, s.result)

Next ==
  \/ Mount
  \/ ClickRefresh
  \/ ClickRetry
  \/ Settle
  \/ Tick

Spec == Init /\ [][Next]_vars

\* --------------------------------------------------------------- properties

\* The step taken last.
Triggered == last.op = "trigger"
Completed == last.op = "complete"
Answered == Completed /\ last.outcome.kind = "response"
Failed == Completed /\ last.outcome.kind = "error"
AnswerText == IF last.outcome.resp.hasText THEN last.outcome.resp.text ELSE <<>>
Min(a, b) == IF a < b THEN a ELSE b
\* The first min(n, 5) elements of array a, as values.
FirstFive(a) == [i \in 1..Min(Len(a), 5) |-> a[i]]
\* The invocations that have completed.
Done == (1..(nextId - 1)) \ {g.id : g \in inflight}

\* C1: a non-forced fetch issued while the saved results are fresh makes no
\* call to the service and yields the saved predictions and sources (stated
\* for a configured credential; without one C2 decides the outcome).
C1_FreshCacheServed ==
  (apiKey /\ Triggered /\ ~last.isRefresh /\ CacheFresh) =>
    /\ ~last.called
    /\ state.predictions = cache.predictions
    /\ state.sources = cache.sources

\* C2: with the credential unset every fetch fails at once with the
\* configuration error; the service is never called, nothing is left in
\* flight and the storage slot is not touched.
C2_NoKeyFailsAtOnce ==
  /\ [](~apiKey =>
          /\ calls = 0
          /\ inflight = {}
          /\ (Triggered =>
                /\ ~last.called
                /\ last.result = Reject(ConfigMsg)
                /\ state.error = Str(ConfigMsg)
                /\ ~state.loading))
  /\ [][~apiKey => cache' = cache]_vars
C2_Witness ==
  ~apiKey /\ Triggered /\ last.via = "retry" /\ CacheFresh /\ state.error = Str(ConfigMsg)

\* C3: when the answer's span parses to an array of n elements the fetch
\* succeeds with exactly its first min(n, 5) elements, in order, and AppState
\* holds them.
C3_FirstFiveInOrder ==
  (Answered /\ HasMatch(AnswerText) /\ ParseOk(JsonMatch(AnswerText))) =>
    LET a == JSONParse(JsonMatch(AnswerText)) IN
    /\ last.result.ok
    /\ last.result.predictions = FirstFive(a)
    /\ state.predictions = FirstFive(a)
    /\ \A n \in 0..MaxElems :
         AnswerText = Literal(Objs(n)) => last.result.predictions = Values(Objs(Min(n, 5)))
C3_Witness ==
  /\ Answered
  /\ AnswerText = Literal(Objs(6))
  /\ state.predictions = Values(Objs(5))

\* A text holds no "[" that a "]" follows.
NoSpan(t) == ~\E i \in 1..Len(t), j \in 1..Len(t) : i < j /\ t[i] = "[" /\ t[j] = "]"

\* C4: an answer without a [...] span fails with the malformed-response
\* error, yields no predictions and leaves the storage slot as it was.
C4_NoSpanFails ==
  /\ []((Answered /\ NoSpan(AnswerText)) =>
          /\ last.result = Reject(NoMatchesMsg)
          /\ state.error = Str(NoMatchesMsg)
          /\ ~state.loading)
  /\ [][(Answered /\ NoSpan(AnswerText))' =>
          /\ cache' = cache
          /\ state'.predictions = state.predictions
          /\ state'.sources = state.sources]_vars
C4_Witness ==
  /\ Answered
  /\ AnswerText = <<"]", "x", "[">>
  /\ cache.present
  /\ state.error = Str(NoMatchesMsg)

\* C5: an answer that is one valid array literal with prose before and after
\* it, prose that may hold brackets of its own, yields the literal's elements.
C5_ArrayLocatedInProse ==
  \A pre \in Prose, post \in Prose, n \in 0..MaxElems :
    (Answered /\ AnswerText = pre \o Literal(Objs(n)) \o post) =>
      /\ last.result.ok
      /\ last.result.predictions = Values(Objs(Min(n, 5)))

\* The raw message holds "429".
Has429(err) == err.hasMessage /\ \E i \in 1..(Len(err.message) - 2) :
  err.message[i] = "4" /\ err.message[i + 1] = "2" /\ err.message[i + 2] = "9"

\* C6 as stated: a failure whose message holds "429" surfaces the rewritten
\* message; every other failure surfaces its own message unchanged.
C6_OthersUnchanged ==
  Failed =>
    /\ ~last.result.ok
    /\ state.error = Str(last.result.message)
    /\ IF Has429(last.outcome.err)
         THEN last.result.message = RateLimitMsg /\ RateLimitMsg # last.outcome.err.message
         ELSE last.outcome.err.hasMessage /\ last.result.message = last.outcome.err.message

\* C6 amended: a failure whose message holds "429" surfaces the rewritten
\* message; every other failure with a non-empty message surfaces it
\* unchanged, and a failure with an empty or absent message surfaces "An
\* unexpected error occurred."
C6_NonEmptyUnchanged ==
  Failed =>
    /\ ~last.result.ok
    /\ state.error = Str(last.result.message)
    /\ IF Has429(last.outcome.err)
         THEN last.result.message = RateLimitMsg /\ RateLimitMsg # last.outcome.err.message
         ELSE IF last.outcome.err.hasMessage /\ last.outcome.err.message # <<>>
           THEN last.result.message = last.outcome.err.message
           ELSE last.result.message = UnexpectedMsg
C6_Witness ==
  /\ Failed
  /\ last.outcome.err = Thrown(<<"e", "4", "2", "9", "e">>)
  /\ state.error = Str(RateLimitMsg)

\* The match names of the predictions AppState holds.
HeldNames == [i \in 1..Len(state.predictions) |-> MatchOf(state.predictions[i])]
\* A prompt names no match.
NamesNothing(p) == \A i \in 1..Len(p) : ~\E n \in 1..MaxElems : p[i] = Obj(n) \o ".match"

\* A refresh calls the service with the held names in its prompt; any other
\* call names no match.
ForcedCallsWithExclusions ==
  /\ last.isRefresh =>
       /\ last.called
       /\ calls > 0
       /\ \E f \in inflight : f.id = last.id /\ f.prompt = last.prompt
       /\ Includes(last.prompt, JoinNames(HeldNames))
  /\ (~last.isRefresh /\ last.called) => NamesNothing(last.prompt)

\* C7 as stated: the refresh trigger always makes a live call whose prompt
\* holds the match names of the predictions in AppState; the initial load and
\* retry exclude nothing.
C7_ForcedAlwaysCalls == Triggered => ForcedCallsWithExclusions

\* C7 amended: with the credential configured, the refresh trigger always
\* makes a live call whose prompt holds the match names of the predictions in
\* AppState; the initial load and retry exclude nothing.
C7_ForcedCallsWithKey == (apiKey /\ Triggered) => ForcedCallsWithExclusions
C7_Witness ==
  /\ Triggered
  /\ last.isRefresh
  /\ last.called
  /\ CacheFresh
  /\ Len(state.predictions) > 1
  /\ Includes(last.prompt, <<Obj(1) \o ".match", ", ", Obj(2) \o ".match">>)

\* C8: every failure sets the error slot, and while the error is set no
\* predictions are on screen or on offer (cards, copy control).
C8_NoResultsBesideError ==
  /\ ((Completed \/ (Triggered /\ ~last.called)) /\ ~last.result.ok) =>
       state.error = Str(last.result.message)
  /\ ~state.error.null => (~CardsShown /\ ~CopyShown)

\* C9: while a fetch is pending the trigger controls are disabled, so at most
\* one fetch is in flight.
C9_OneInFlight ==
  /\ inflight # {} => (state.loading \/ isRefreshing) /\ ~RefreshEnabled /\ ~RetryEnabled
  /\ Cardinality(inflight) <= 1

\* C10: a completion is applied as it arrives, whatever was started or has
\* completed since: after a successful completion AppState holds that
\* fetch's predictions and sources, also when a later fetch completed first.
C10_LastCompletionWins ==
  (Completed /\ last.result.ok) =>
    /\ state.predictions = last.result.predictions
    /\ state.sources = last.result.sources
C10_Witness ==
  /\ Completed
  /\ last.result.ok
  /\ \E j \in Done : j > last.id
  /\ inflight = {}
  /\ state.predictions = Values(Objs(2))
  /\ CardsShown

====
